---- MODULE Spec2Model ----
(***************************************************************************)
(* A model of main.py: the /subs and /debug handlers, the shared cookie    *)
(* file, the caption-track selection and the cue-file normaliser           *)
(* vtt_to_text.  Strings are sequences of one-character strings, so that   *)
(* strip, startswith, the regular expressions and lower() are computed     *)
(* character by character as Python computes them.                         *)
(***************************************************************************)
EXTENDS Integers, Sequences, FiniteSets, TLC

\* ------------------------------------------------------------------------
\* Bounds of the model
\* ------------------------------------------------------------------------
MaxLines == 3
MaxPool == 2
NumReq == 2

\* ------------------------------------------------------------------------
\* Characters and strings
\* ------------------------------------------------------------------------
UpperChars ==
    <<"A", "B", "C", "D", "E", "F", "G", "H", "I", "J", "K", "L", "M",
      "N", "O", "P", "Q", "R", "S", "T", "U", "V", "W", "X", "Y", "Z">>

LowerChars ==
    <<"a", "b", "c", "d", "e", "f", "g", "h", "i", "j", "k", "l", "m",
      "n", "o", "p", "q", "r", "s", "t", "u", "v", "w", "x", "y", "z">>

DigitChars == {"0", "1", "2", "3", "4", "5", "6", "7", "8", "9"}

\* str.lower() on one character
Lower(c) ==
    IF \E i \in DOMAIN UpperChars : UpperChars[i] = c
    THEN LowerChars[CHOOSE i \in DOMAIN UpperChars : UpperChars[i] = c]
    ELSE c

\* str.lower()
LowerStr(s) == [i \in 1..Len(s) |-> Lower(s[i])]

\* \s of the regular expressions, and the characters str.strip() removes
IsSpace(c) == c \in {" ", "\t", "\n", "\r"}

\* \w of the regular expressions
IsWordChar(c) ==
    \/ c \in DigitChars
    \/ c = "_"
    \/ \E i \in DOMAIN UpperChars : c = UpperChars[i] \/ c = LowerChars[i]

RECURSIVE LStrip(_)
LStrip(s) == IF s # <<>> /\ IsSpace(Head(s)) THEN LStrip(Tail(s)) ELSE s

RECURSIVE RStrip(_)
RStrip(s) ==
    IF s # <<>> /\ IsSpace(s[Len(s)]) THEN RStrip(SubSeq(s, 1, Len(s) - 1)) ELSE s

\* str.strip()
Strip(s) == RStrip(LStrip(s))

\* str.startswith(p)
StartsWith(s, p) == Len(s) >= Len(p) /\ SubSeq(s, 1, Len(p)) = p

\* sub in s
Contains(s, sub) ==
    \E i \in 1..(Len(s) - Len(sub) + 1) : SubSeq(s, i, i + Len(sub) - 1) = sub

\* str.isdigit()
IsDigitStr(s) == s # <<>> /\ \A i \in 1..Len(s) : s[i] \in DigitChars

\* " ".join(xs)
RECURSIVE JoinSpace(_)
JoinSpace(xs) ==
    IF xs = <<>> THEN <<>>
    ELSE IF Len(xs) = 1 THEN xs[1]
    ELSE xs[1] \o <<" ">> \o JoinSpace(Tail(xs))

\* ------------------------------------------------------------------------
\* vtt_to_text: the patterns
\* ------------------------------------------------------------------------
DROP_PREFIXES ==
    { <<"W", "E", "B", "V", "T", "T">>,
      <<"K", "i", "n", "d", ":">>,
      <<"L", "a", "n", "g", "u", "a", "g", "e", ":">> }

ARROW == <<"-", "-", ">">>

\* TIMESTAMP_RE.search(s):  ^\d{2}:\d{2}:\d{2}\.\d{3} -->
TIMESTAMP_RE(s) ==
    /\ Len(s) >= 17
    /\ \A i \in {1, 2, 4, 5, 7, 8, 10, 11, 12} : s[i] \in DigitChars
    /\ s[3] = ":" /\ s[6] = ":" /\ s[9] = "."
    /\ SubSeq(s, 13, 17) = <<" ", "-", "-", ">", " ">>

\* NOISE_BRACKETS.match(s):  ^\[[^\]]+\]$
NOISE_BRACKETS(s) ==
    /\ Len(s) >= 3
    /\ s[1] = "[" /\ s[Len(s)] = "]"
    /\ \A i \in 2..(Len(s) - 1) : s[i] # "]"

\* the index of the first c in s, 0 when there is none
FirstIndex(s, c) ==
    IF \E i \in 1..Len(s) : s[i] = c
    THEN CHOOSE i \in 1..Len(s) : s[i] = c /\ \A j \in 1..(i - 1) : s[j] # c
    ELSE 0

\* VTT_TAG_RE.sub("", s):  <[^>]+>  removed, leftmost first, not overlapping
RECURSIVE VTT_TAG_RE_sub(_)
VTT_TAG_RE_sub(s) ==
    IF s = <<>> THEN <<>>
    ELSE LET j == IF Head(s) = "<" THEN FirstIndex(s, ">") ELSE 0
         IN  IF j >= 3
             THEN VTT_TAG_RE_sub(SubSeq(s, j + 1, Len(s)))
             ELSE <<Head(s)>> \o VTT_TAG_RE_sub(Tail(s))

\* re.findall(r"\w+", s): the maximal runs of word characters, in order
RECURSIVE FindWords(_, _)
FindWords(s, cur) ==
    LET done == IF cur = <<>> THEN <<>> ELSE <<cur>>
    IN  IF s = <<>> THEN done
        ELSE IF IsWordChar(Head(s)) THEN FindWords(Tail(s), Append(cur, Head(s)))
        ELSE done \o FindWords(Tail(s), <<>>)

\* set(w for w in re.findall(r"\w+", a.lower()) if len(w) > 1)
WordSet(a) ==
    LET ws == FindWords(LowerStr(a), <<>>)
    IN  { ws[i] : i \in { k \in 1..Len(ws) : Len(ws[k]) > 1 } }

MinOf(x, y) == IF x <= y THEN x ELSE y

\* overlap >= 0.8, with overlap = len(aset & bset) / min(len(aset), len(bset))
too_similar(a, b) ==
    LET aset == WordSet(a)
        bset == WordSet(b)
    IN  IF aset = {} \/ bset = {} THEN FALSE
        ELSE 10 * Cardinality(aset \cap bset)
                 >= 8 * MinOf(Cardinality(aset), Cardinality(bset))

\* the five skip rules of the loop (the `continue` statements)
SkipLine(s) ==
    \/ s = <<>>
    \/ \E p \in DROP_PREFIXES : StartsWith(s, p)
    \/ IsDigitStr(s)
    \/ TIMESTAMP_RE(s) \/ Contains(s, ARROW)
    \/ NOISE_BRACKETS(s)

\* the loop body with the near-duplicate test left out
ReadLineNoDedup(st, raw) ==
    LET s == Strip(raw)
    IN  IF SkipLine(s) THEN st
        ELSE LET t == VTT_TAG_RE_sub(s)
             IN  [lines |-> Append(st.lines, t), prev |-> t]

\* one iteration of `for raw in f` on the loop state [lines, prev]
ReadLine(st, raw) ==
    LET s == Strip(raw)
    IN  IF SkipLine(s) THEN st
        ELSE LET t == VTT_TAG_RE_sub(s)
             IN  IF st.prev # <<>> /\ too_similar(t, st.prev) THEN st
                 ELSE [lines |-> Append(st.lines, t), prev |-> t]

\* re.sub(r"\s+", " ", s)
RECURSIVE CollapseSpaces(_)
CollapseSpaces(s) ==
    IF s = <<>> THEN <<>>
    ELSE IF IsSpace(Head(s)) THEN <<" ">> \o CollapseSpaces(LStrip(s))
    ELSE <<Head(s)>> \o CollapseSpaces(Tail(s))

\* the last index of the maximal run of word characters that starts at i
RECURSIVE WordEnd(_, _)
WordEnd(s, i) ==
    IF i < Len(s) /\ IsWordChar(s[i + 1]) THEN WordEnd(s, i + 1) ELSE i

\* the last index of the maximal run of whitespace that starts at i
RECURSIVE SpaceEnd(_, _)
SpaceEnd(s, i) ==
    IF i < Len(s) /\ IsSpace(s[i + 1]) THEN SpaceEnd(s, i + 1) ELSE i

\* \b(\w{2,})\s+\1\b  with IGNORECASE, tried at position i: the index of the
\* last character of the match, 0 when the pattern does not match at i
RepeatMatchEnd(s, i) ==
    IF ~(IsWordChar(s[i]) /\ (i = 1 \/ ~IsWordChar(s[i - 1]))) THEN 0
    ELSE LET e == WordEnd(s, i)
             n == e - i + 1
         IN  IF n < 2 \/ e >= Len(s) \/ ~IsSpace(s[e + 1]) THEN 0
             ELSE LET m == SpaceEnd(s, e + 1) + 1
                      z == m + n - 1
                  IN  IF /\ z <= Len(s)
                         /\ LowerStr(SubSeq(s, m, z)) = LowerStr(SubSeq(s, i, e))
                         /\ (z = Len(s) \/ ~IsWordChar(s[z + 1]))
                      THEN z
                      ELSE 0

\* re.sub(r"\b(\w{2,})\s+\1\b", r"\1", s, flags=re.IGNORECASE), from position i
RECURSIVE CollapseRepeats(_, _)
CollapseRepeats(s, i) ==
    IF i > Len(s) THEN <<>>
    ELSE LET z == RepeatMatchEnd(s, i)
         IN  IF z > 0
             THEN SubSeq(s, i, WordEnd(s, i)) \o CollapseRepeats(s, z + 1)
             ELSE <<s[i]>> \o CollapseRepeats(s, i + 1)

\* the joined text with the final strip() left out
JoinLinesNoStrip(lines) == CollapseRepeats(CollapseSpaces(JoinSpace(lines)), 1)

\* lines 58-62: join, collapse whitespace, strip, collapse word repeats
JoinLines(lines) == CollapseRepeats(Strip(CollapseSpaces(JoinSpace(lines))), 1)

RECURSIVE ReadAll(_, _)
ReadAll(st, f) == IF f = <<>> THEN st ELSE ReadAll(ReadLine(st, Head(f)), Tail(f))

\* vtt_to_text on the lines of a cue file
vtt_to_text(f) == JoinLines(ReadAll([lines |-> <<>>, prev |-> <<>>], f).lines)

\* ------------------------------------------------------------------------
\* Cue-file lines and language codes the inputs are drawn from
\* ------------------------------------------------------------------------
\* ''
L_blank == <<>>

\* 'WEBVTT'
L_header == <<"W", "E", "B", "V", "T", "T">>

\* '12'
L_index == <<"1", "2">>

\* '00:00:01.000 --> 00:00:02.000'
L_time == <<"0", "0", ":", "0", "0", ":", "0", "1", ".", "0", "0", "0", " ", "-", "-", ">", " ", "0", "0", ":", "0", "0", ":", "0", "2", ".", "0", "0", "0">>

\* '[Muzyka]'
L_noise == <<"[", "M", "u", "z", "y", "k", "a", "]">>

\* 'Hello world'
L_hello == <<"H", "e", "l", "l", "o", " ", "w", "o", "r", "l", "d">>

\* 'Hello world there'
L_hello_there == <<"H", "e", "l", "l", "o", " ", "w", "o", "r", "l", "d", " ", "t", "h", "e", "r", "e">>

\* '<c>hello</c> world'
L_tagged == <<"<", "c", ">", "h", "e", "l", "l", "o", "<", "/", "c", ">", " ", "w", "o", "r", "l", "d">>

\* '<c></c>'
L_tag_only == <<"<", "c", ">", "<", "/", "c", ">">>

\* 'go go go'
L_gogogo == <<"g", "o", " ", "g", "o", " ", "g", "o">>

\* '[oh'
L_open == <<"[", "o", "h">>

\* 'no]'
L_close == <<"n", "o", "]">>

\* '<i>12</i>'
L_tag_digits == <<"<", "i", ">", "1", "2", "<", "/", "i", ">">>

CueLines ==
    { L_blank,
      L_header,
      L_index,
      L_time,
      L_noise,
      L_hello,
      L_hello_there,
      L_tagged,
      L_tag_only,
      L_gogogo,
      L_open,
      L_close,
      L_tag_digits }

\* 'pl'
Lang_pl == <<"p", "l">>

\* 'pl-PL'
Lang_pl_PL == <<"p", "l", "-", "P", "L">>

\* 'PL'
Lang_PL == <<"P", "L">>

\* 'en'
Lang_en == <<"e", "n">>

\* ''
Lang_empty_code == <<>>

\* 'p'
Lang_p == <<"p">>

LangCodes == { Lang_pl, Lang_pl_PL, Lang_PL, Lang_en, Lang_empty_code }

\* the values of the query parameter `lang`
RequestedLangs == LangCodes \cup { Lang_p }

\* the values of `lang` the requests of Spec carry: the default, "pl"
DefaultLangs == { Lang_pl }

\* Python's None where a string is expected
None == <<"None">>

\* ------------------------------------------------------------------------
\* State
\* ------------------------------------------------------------------------
VARIABLES
    env,         \* os.environ: [b64, raw], the two cookie settings
    cookieFile,  \* the content of /app/cookies.txt: absent, empty, partial, full
    tmp,         \* the temporary directory of each request: [exists, files]
    req,         \* the frame of each request's handler: its position and locals
    vtt,         \* vtt_to_text: the lines of the cue file being read
    pos,         \* vtt_to_text: how many lines of it the loop has read
    lines,       \* vtt_to_text: the kept lines
    prev,        \* vtt_to_text: the last kept line
    text,        \* vtt_to_text: the returned text
    npc,         \* vtt_to_text: idle, read (in the loop), returned
    pass,        \* 1: the cue file is read; 2: the first result is read as a file
    first_text   \* the text the first pass returned

reqVars == <<env, cookieFile, tmp, req>>
normVars == <<vtt, pos, lines, prev, text, npc, pass, first_text>>
vars == <<env, cookieFile, tmp, req, vtt, pos, lines, prev, text, npc, pass, first_text>>

Reqs == 1..NumReq

\* ------------------------------------------------------------------------
\* get_subs: the track selection (lines 130-149)
\* ------------------------------------------------------------------------
InList(x, xs) == \E i \in 1..Len(xs) : xs[i] = x

\* find_prefix(langs, prefix)
find_prefix(langs, prefix) ==
    LET hits == { i \in 1..Len(langs) :
                    /\ langs[i] # <<>>
                    /\ StartsWith(LowerStr(langs[i]), LowerStr(prefix)) }
    IN  IF hits = {} THEN None
        ELSE langs[CHOOSE i \in hits : \A j \in hits : i <= j]

\* x or y, for a string or None x
OrElse(x, y) == IF x # None /\ x # <<>> THEN x ELSE y

\* the selection with pools swapped: the manual pool is tried first
SelectTrackManualFirst(auto_caps, manual_subs, lang) ==
    IF manual_subs # <<>>
    THEN [chosen_lang |-> IF InList(lang, manual_subs) THEN lang
                          ELSE OrElse(find_prefix(manual_subs, lang), manual_subs[1]),
          used_type |-> "manual"]
    ELSE IF auto_caps # <<>>
    THEN [chosen_lang |-> IF InList(lang, auto_caps) THEN lang
                          ELSE OrElse(find_prefix(auto_caps, lang), auto_caps[1]),
          used_type |-> "auto"]
    ELSE [chosen_lang |-> None, used_type |-> "None"]

\* the selection with the prefix scan taking the last match, not the first
SelectTrackLastPrefix(auto_caps, manual_subs, lang) ==
    LET last(pool) ==
            LET hits == { i \in 1..Len(pool) :
                            /\ pool[i] # <<>>
                            /\ StartsWith(LowerStr(pool[i]), LowerStr(lang)) }
            IN  IF hits = {} THEN None
                ELSE pool[CHOOSE i \in hits : \A j \in hits : i >= j]
    IN  IF auto_caps # <<>>
        THEN [chosen_lang |-> IF InList(lang, auto_caps) THEN lang
                              ELSE OrElse(last(auto_caps), auto_caps[1]),
              used_type |-> "auto"]
        ELSE IF manual_subs # <<>>
        THEN [chosen_lang |-> IF InList(lang, manual_subs) THEN lang
                              ELSE OrElse(last(manual_subs), manual_subs[1]),
              used_type |-> "manual"]
        ELSE [chosen_lang |-> None, used_type |-> "None"]

\* the selection failing when the requested language matches no key
SelectTrackNoFallback(auto_caps, manual_subs, lang) ==
    IF auto_caps # <<>>
    THEN [chosen_lang |-> IF InList(lang, auto_caps) THEN lang
                          ELSE find_prefix(auto_caps, lang),
          used_type |-> IF InList(lang, auto_caps) \/ find_prefix(auto_caps, lang) # None
                        THEN "auto" ELSE "None"]
    ELSE IF manual_subs # <<>>
    THEN [chosen_lang |-> IF InList(lang, manual_subs) THEN lang
                          ELSE find_prefix(manual_subs, lang),
          used_type |-> IF InList(lang, manual_subs) \/ find_prefix(manual_subs, lang) # None
                        THEN "manual" ELSE "None"]
    ELSE [chosen_lang |-> None, used_type |-> "None"]

\* lines 139-149: chosen_lang and used_type; used_type "None" is the 404 branch
SelectTrack(auto_caps, manual_subs, lang) ==
    IF auto_caps # <<>>
    THEN [chosen_lang |-> IF InList(lang, auto_caps) THEN lang
                          ELSE OrElse(find_prefix(auto_caps, lang), auto_caps[1]),
          used_type |-> "auto"]
    ELSE IF manual_subs # <<>>
    THEN [chosen_lang |-> IF InList(lang, manual_subs) THEN lang
                          ELSE OrElse(find_prefix(manual_subs, lang), manual_subs[1]),
          used_type |-> "manual"]
    ELSE [chosen_lang |-> None, used_type |-> "None"]

\* ------------------------------------------------------------------------
\* The external tool's outputs and the environment
\* ------------------------------------------------------------------------
\* A JSON value where a pool is expected: null (or missing, or another falsy
\* value), an object with its keys in order, or another truthy value
JNull == [t |-> "null", keys |-> <<>>]
JObj(keys) == [t |-> "object", keys |-> keys]
JOther == [t |-> "other", keys |-> <<>>]

NoInfo == [t |-> "none", automatic_captions |-> JNull, subtitles |-> JNull]

\* a probe's JSON object with its two pools
Info(a, m) == [t |-> "object", automatic_captions |-> a, subtitles |-> m]

\* what `yt-dlp -J` may give: a nonzero exit, output that is no JSON, a JSON
\* document that is no object, an object whose pool is no object, an object
\* with two empty pools, with both pools, with a manual pool only
ProbeOutputs ==
    { [kind |-> "fail", info |-> NoInfo],
      [kind |-> "badjson", info |-> NoInfo],
      [kind |-> "json", info |-> [t |-> "other", automatic_captions |-> JNull,
                                  subtitles |-> JNull]],
      [kind |-> "json", info |-> Info(JObj(<<Lang_en>>), JOther)],
      [kind |-> "json", info |-> Info(JNull, JObj(<<>>))],
      [kind |-> "json", info |-> Info(JObj(<<Lang_pl_PL>>), JObj(<<Lang_en, Lang_pl>>))],
      [kind |-> "json", info |-> Info(JNull, JObj(<<Lang_en, Lang_pl>>))] }

\* the cue files a download may write
ReqCueFiles == { <<L_header>>, <<L_index, L_time, L_hello, L_hello_there>> }

\* what the download may leave in the temporary directory: nothing, a file the
\* first glob finds, a file only the second glob finds, a file neither finds
DirListings ==
    { <<>> }
    \cup { << [name |-> "id.lang.vtt", content |-> c] >> : c \in ReqCueFiles }
    \cup { << [name |-> "other.vtt", content |-> <<L_hello>>] >>,
           << [name |-> "id.lang.srt", content |-> <<L_hello>>] >> }

MaterializeOutputs ==
    { [kind |-> "fail", files |-> <<>>] }
    \cup { [kind |-> "ok", files |-> fs] : fs \in DirListings }

\* the settings of YOUTUBE_COOKIES_B64 (valid, not decodable, decoding to the
\* empty text, unset) and of YOUTUBE_COOKIES (set, unset)
Envs ==
    { [b64 |-> "valid", raw |-> "text"],
      [b64 |-> "invalid", raw |-> "text"],
      [b64 |-> "blank", raw |-> "text"],
      [b64 |-> "", raw |-> "text"],
      [b64 |-> "", raw |-> ""] }

\* write_cookies_file, lines 69-82: the text to write, or the 500 raised
cookie_text(e) ==
    IF e.b64 # ""
    THEN IF e.b64 = "invalid" THEN [error |-> TRUE, text |-> ""]
         ELSE [error |-> FALSE, text |-> IF e.b64 = "valid" THEN "b64 cookies" ELSE ""]
    ELSE [error |-> FALSE, text |-> e.raw]

\* ------------------------------------------------------------------------
\* The handlers' frames
\* ------------------------------------------------------------------------
NoCmd == [flag |-> "none", sub_lang |-> None]

NoBody == [used_lang |-> None, used_type |-> "None", available_auto |-> <<>>,
           available_manual |-> <<>>, text |-> <<>>, probe_ok |-> FALSE]

Frame0 ==
    [kind |-> "none", pc |-> "idle", lang |-> None, cookie_text |-> "",
     probe |-> "none", info |-> NoInfo, auto_caps |-> <<>>, manual_subs |-> <<>>,
     chosen_lang |-> None, used_type |-> "None", base_cmd |-> NoCmd,
     mat |-> "none", vtts |-> <<>>, text |-> <<>>, status |-> 0, body |-> NoBody,
     cookie_read |-> "none", trace |-> <<>>]

NoDir == [exists |-> FALSE, files |-> <<>>]

\* raise HTTPException(status_code=code), or an exception nothing catches (500)
Raise(f, code) == [f EXCEPT !.pc = "done", !.status = code]

\* leaving the `with` block without removing the directory
ExitTmpLeak(t, r) == t

\* leaving `with tempfile.TemporaryDirectory()`: the directory and its files go
ExitTmp(t, r) == [t EXCEPT ![r] = NoDir]

\* list((v or {}).keys())
KeysOf(v) == IF v.t = "object" THEN v.keys ELSE <<>>

\* lines 130-131 raise AttributeError: info or a pool is no object
Malformed(info) ==
    \/ info.t # "object"
    \/ info.automatic_captions.t = "other"
    \/ info.subtitles.t = "other"

\* the download command built with the requested language, not the chosen one
BaseCmdRequested(chosen_lang, used_type, lang) ==
    [flag |-> IF used_type = "auto" THEN "--write-auto-subs" ELSE "--write-subs",
     sub_lang |-> lang]

\* lines 152-161: --sub-lang and the pool's flag of the download command
BaseCmd(chosen_lang, used_type, lang) ==
    [flag |-> IF used_type = "auto" THEN "--write-auto-subs" ELSE "--write-subs",
     sub_lang |-> chosen_lang]

\* line 168: glob(tmp/<videoId>.*.vtt) or glob(tmp/*.vtt)
Glob(files) ==
    LET byId(f) == f.name = "id.lang.vtt"
        anyVtt(f) == f.name \in {"id.lang.vtt", "other.vtt"}
    IN  IF SelectSeq(files, byId) # <<>> THEN SelectSeq(files, byId)
        ELSE SelectSeq(files, anyVtt)

\* ------------------------------------------------------------------------
\* The handlers, step by step
\* ------------------------------------------------------------------------
\* get_subs is `async def` and never awaits: while it runs, the event loop
\* starts no other handler.  debug is `def`: it runs in a worker thread.
LoopFree == \A q \in Reqs : ~(req[q].kind = "subs" /\ req[q].pc \notin {"idle", "done"})

\* write_cookies_file up to open(..., "w"): the checks of the environment, then
\* the file is created or truncated.  k is the endpoint, l the query's lang.
WriteCookiesOpen(r, k, l) ==
    /\ req[r].pc = "idle"
    /\ LoopFree
    /\ LET ct == cookie_text(env)
           f == [req[r] EXCEPT !.kind = k, !.lang = l]
       IN  IF ct.error \/ ct.text = ""
           THEN /\ req' = [req EXCEPT ![r] = Raise(f, 500)]
                /\ UNCHANGED cookieFile
           ELSE /\ req' = [req EXCEPT ![r] = [f EXCEPT !.pc = "opened",
                                                      !.cookie_text = ct.text]]
                /\ cookieFile' = "empty"
    /\ UNCHANGED <<env, tmp, normVars>>

\* cf.write: the first part of a text larger than the buffer reaches the file
\* before close().  All requests write the same text, so a file that holds it
\* whole still does.
WriteCookiesFlush(r) ==
    /\ req[r].pc = "opened"
    /\ req' = [req EXCEPT ![r].pc = "flushing"]
    /\ cookieFile' = IF cookieFile = "full" THEN "full" ELSE "partial"
    /\ UNCHANGED <<env, tmp, normVars>>

\* the end of the `with open` block: the rest of the text is written at this
\* writer's offset.  The file holds the whole text unless another request
\* truncated it after this writer's first part went out.
WriteCookiesClose(r) ==
    /\ req[r].pc \in {"opened", "flushing"}
    /\ req' = [req EXCEPT ![r].pc = "written",
                          ![r].trace = Append(@, "write")]
    /\ cookieFile' = IF req[r].pc = "flushing" /\ cookieFile = "empty"
                     THEN "partial" ELSE "full"
    /\ UNCHANGED <<env, tmp, normVars>>

\* with tempfile.TemporaryDirectory() as tmp
MakeTmp(r) ==
    /\ req[r].kind = "subs"
    /\ req[r].pc = "written"
    /\ req' = [req EXCEPT ![r].pc = "tmp"]
    /\ tmp' = [tmp EXCEPT ![r] = [exists |-> TRUE, files |-> <<>>]]
    /\ UNCHANGED <<env, cookieFile, normVars>>

\* the probe run again after a failure
AfterProbeRetry(f, out, file) ==
    LET g == [f EXCEPT !.probe = out.kind, !.cookie_read = file,
                       !.trace = Append(@, "probe")]
    IN  IF out.kind \in {"fail", "badjson"} THEN g
        ELSE [g EXCEPT !.pc = "probed", !.info = out.info]

\* lines 121-128: the frame after the probe gave `out`, the tool having read
\* the cookie file in state `file`
AfterProbe(f, out, file) ==
    LET g == [f EXCEPT !.probe = out.kind, !.cookie_read = file,
                       !.trace = Append(@, "probe")]
    IN  IF out.kind \in {"fail", "badjson"} THEN Raise(g, 500)
        ELSE [g EXCEPT !.pc = "probed", !.info = out.info]

Probe(r, out) ==
    /\ req[r].kind = "subs"
    /\ req[r].pc = "tmp"
    /\ req' = [req EXCEPT ![r] = AfterProbe(req[r], out, cookieFile)]
    /\ tmp' = IF req'[r].pc = "done" THEN ExitTmp(tmp, r) ELSE tmp
    /\ UNCHANGED <<env, cookieFile, normVars>>

\* lines 130-161: the pools, the selection, the download command
Select(r) ==
    /\ req[r].kind = "subs"
    /\ req[r].pc = "probed"
    /\ LET f == req[r]
           auto == KeysOf(f.info.automatic_captions)
           manual == KeysOf(f.info.subtitles)
           sel == SelectTrack(auto, manual, f.lang)
           g == [f EXCEPT !.auto_caps = auto, !.manual_subs = manual]
       IN  req' = [req EXCEPT ![r] =
                IF Malformed(f.info) THEN Raise(f, 500)
                ELSE IF sel.used_type = "None" THEN Raise(g, 404)
                ELSE [g EXCEPT !.chosen_lang = sel.chosen_lang,
                               !.used_type = sel.used_type,
                               !.base_cmd = BaseCmd(sel.chosen_lang, sel.used_type, f.lang),
                               !.trace = Append(@, "select"),
                               !.pc = "selected"]]
    /\ tmp' = IF req'[r].pc = "done" THEN ExitTmp(tmp, r) ELSE tmp
    /\ UNCHANGED <<env, cookieFile, normVars>>

\* lines 163-166: the download
Materialize(r, out) ==
    /\ req[r].kind = "subs"
    /\ req[r].pc = "selected"
    /\ LET g == [req[r] EXCEPT !.mat = out.kind, !.cookie_read = cookieFile,
                               !.trace = Append(@, "materialize")]
       IN  IF out.kind = "fail"
           THEN /\ req' = [req EXCEPT ![r] = Raise(g, 404)]
                /\ tmp' = ExitTmp(tmp, r)
           ELSE /\ req' = [req EXCEPT ![r] = [g EXCEPT !.pc = "downloaded"]]
                /\ tmp' = [tmp EXCEPT ![r].files = out.files]
    /\ UNCHANGED <<env, cookieFile, normVars>>

\* an empty text answered with 200
AfterDownloadEmptyOk(f, files) ==
    LET vtts == Glob(files)
        g == [f EXCEPT !.vtts = vtts]
    IN  IF vtts = <<>> THEN Raise(g, 404)
        ELSE LET t == vtt_to_text(vtts[1].content)
                 h == [g EXCEPT !.text = t, !.trace = Append(@, "normalize")]
             IN  [Raise(h, 200) EXCEPT
                      !.body = [used_lang |-> f.chosen_lang,
                                used_type |-> f.used_type,
                                available_auto |-> f.auto_caps,
                                available_manual |-> f.manual_subs,
                                text |-> t, probe_ok |-> FALSE]]

\* lines 168-185: the frame after the cue file is looked up and normalised
AfterDownload(f, files) ==
    LET vtts == Glob(files)
        g == [f EXCEPT !.vtts = vtts]
    IN  IF vtts = <<>> THEN Raise(g, 404)
        ELSE LET t == vtt_to_text(vtts[1].content)
                 h == [g EXCEPT !.text = t, !.trace = Append(@, "normalize")]
             IN  IF t = <<>> THEN Raise(h, 422)
                 ELSE [Raise(h, 200) EXCEPT
                          !.body = [used_lang |-> f.chosen_lang,
                                    used_type |-> f.used_type,
                                    available_auto |-> f.auto_caps,
                                    available_manual |-> f.manual_subs,
                                    text |-> t, probe_ok |-> FALSE]]

Normalize(r) ==
    /\ req[r].kind = "subs"
    /\ req[r].pc = "downloaded"
    /\ req' = [req EXCEPT ![r] = AfterDownload(req[r], tmp[r].files)]
    /\ tmp' = ExitTmp(tmp, r)
    /\ UNCHANGED <<env, cookieFile, normVars>>

\* debug, lines 92-106: the probe, whose failure is reported in a 200 answer
DebugProbe(r, ok) ==
    /\ req[r].kind = "debug"
    /\ req[r].pc = "written"
    /\ req' = [req EXCEPT ![r] =
                 [Raise(req[r], 200) EXCEPT
                     !.probe = IF ok THEN "json" ELSE "fail",
                     !.cookie_read = cookieFile,
                     !.trace = Append(@, "probe"),
                     !.body = [NoBody EXCEPT !.probe_ok = ok]]]
    /\ UNCHANGED <<env, cookieFile, tmp, normVars>>

\* ------------------------------------------------------------------------
\* vtt_to_text, line by line
\* ------------------------------------------------------------------------
\* `for raw in f`: one line
NormReadLine ==
    /\ npc = "read"
    /\ pos < Len(vtt)
    /\ LET st == ReadLine([lines |-> lines, prev |-> prev], vtt[pos + 1])
       IN  lines' = st.lines /\ prev' = st.prev
    /\ pos' = pos + 1
    /\ UNCHANGED <<reqVars, vtt, text, npc, pass, first_text>>

\* lines 58-64
NormReturn ==
    /\ npc = "read"
    /\ pos = Len(vtt)
    /\ text' = JoinLines(lines)
    /\ npc' = "returned"
    /\ UNCHANGED <<reqVars, vtt, pos, lines, prev, pass, first_text>>

\* the returned text is written to a file as its only line, and vtt_to_text
\* is called on that file
FeedBack ==
    /\ npc = "returned"
    /\ pass = 1
    /\ first_text' = text
    /\ vtt' = <<text>>
    /\ pos' = 0 /\ lines' = <<>> /\ prev' = <<>> /\ text' = <<>>
    /\ npc' = "read"
    /\ pass' = 2
    /\ UNCHANGED reqVars

\* ------------------------------------------------------------------------
\* Specifications
\* ------------------------------------------------------------------------
NormIdle ==
    /\ vtt = <<>> /\ pos = 0 /\ lines = <<>> /\ prev = <<>> /\ text = <<>>
    /\ npc = "idle" /\ pass = 0 /\ first_text = <<>>

\* the service after start-up: no request yet, no cookie file written
Init ==
    /\ env \in Envs
    /\ cookieFile = "absent"
    /\ tmp = [r \in Reqs |-> NoDir]
    /\ req = [r \in Reqs |-> Frame0]
    /\ NormIdle

Next ==
    \/ \E r \in Reqs, l \in DefaultLangs : WriteCookiesOpen(r, "subs", l)
    \/ \E r \in Reqs : WriteCookiesOpen(r, "debug", None)
    \/ \E r \in Reqs : WriteCookiesFlush(r)
    \/ \E r \in Reqs : WriteCookiesClose(r)
    \/ \E r \in Reqs : MakeTmp(r)
    \/ \E r \in Reqs, out \in ProbeOutputs : Probe(r, out)
    \/ \E r \in Reqs : Select(r)
    \/ \E r \in Reqs, out \in MaterializeOutputs : Materialize(r, out)
    \/ \E r \in Reqs : Normalize(r)
    \/ \E r \in Reqs, ok \in BOOLEAN : DebugProbe(r, ok)

Spec == Init /\ [][Next]_vars

\* the ordered lists of distinct language codes, up to MaxPool long
RECURSIVE PoolsOfLen(_)
PoolsOfLen(n) ==
    IF n = 0 THEN { <<>> }
    ELSE { Append(p, c) : p \in { q \in PoolsOfLen(n - 1) : Len(q) = n - 1 },
                          c \in LangCodes }

Pools ==
    { p \in UNION { PoolsOfLen(n) : n \in 0..MaxPool } :
        \A i, j \in 1..Len(p) : i # j => p[i] # p[j] }

\* one /subs request whose probe has just returned, for every pair of pools
\* and every requested language
InitSel ==
    /\ env = [b64 |-> "valid", raw |-> "text"]
    /\ cookieFile = "full"
    /\ \E a, m \in Pools, l \in RequestedLangs :
          req = [r \in Reqs |->
                   IF r = 1
                   THEN [Frame0 EXCEPT
                           !.kind = "subs", !.pc = "probed", !.lang = l,
                           !.cookie_text = "b64 cookies", !.probe = "json",
                           !.info = Info(JObj(a), JObj(m)),
                           !.cookie_read = "full", !.trace = <<"write", "probe">>]
                   ELSE Frame0]
    /\ tmp = [r \in Reqs |-> IF r = 1 THEN [exists |-> TRUE, files |-> <<>>] ELSE NoDir]
    /\ NormIdle

NextSel == \E r \in Reqs : Select(r)

SpecSel == InitSel /\ [][NextSel]_vars

\* the cue files of up to MaxLines lines
RECURSIVE FilesOfLen(_)
FilesOfLen(n) ==
    IF n = 0 THEN { <<>> }
    ELSE { Append(f, l) : f \in FilesOfLen(n - 1), l \in CueLines }

CueFiles == UNION { FilesOfLen(n) : n \in 0..MaxLines }

\* vtt_to_text called on a cue file
InitNorm ==
    /\ env = [b64 |-> "valid", raw |-> "text"]
    /\ cookieFile = "absent"
    /\ tmp = [r \in Reqs |-> NoDir]
    /\ req = [r \in Reqs |-> Frame0]
    /\ vtt \in CueFiles
    /\ pos = 0 /\ lines = <<>> /\ prev = <<>> /\ text = <<>>
    /\ npc = "read" /\ pass = 1 /\ first_text = <<>>

NextNorm == NormReadLine \/ NormReturn \/ FeedBack

SpecNorm == InitNorm /\ [][NextNorm]_vars

\* ------------------------------------------------------------------------
\* Properties
\* ------------------------------------------------------------------------
AutoKeys(r) == KeysOf(req[r].info.automatic_captions)
ManualKeys(r) == KeysOf(req[r].info.subtitles)

\* the request has run the selection of lines 139-149 on a well-formed probe
PastSelect(r) ==
    /\ req[r].kind = "subs"
    /\ req[r].probe = "json"
    /\ ~Malformed(req[r].info)
    /\ req[r].pc \in {"selected", "downloaded", "done"}

\* the selection raised the 404 of line 149
SelectFailed(r) ==
    /\ req[r].pc = "done"
    /\ req[r].status = 404
    /\ ~InList("select", req[r].trace)

\* C1: whenever the probe advertises a non-empty automatic pool, the selected
\* track is of the automatic pool (used_type = "auto", chosen_lang one of its
\* keys), whatever the manual pool and the requested language; the manual pool
\* is used only when the automatic pool is empty.
C1_AutoPoolPreferred ==
    \A r \in Reqs :
        PastSelect(r) =>
            /\ AutoKeys(r) # <<>> =>
                  /\ ~SelectFailed(r)
                  /\ req[r].used_type = "auto"
                  /\ InList(req[r].chosen_lang, AutoKeys(r))
            /\ req[r].used_type = "manual" => AutoKeys(r) = <<>>

\* scenario B: auto {"pl-PL"}, manual {"en"}, requested "pl" -> ("pl-PL", auto)
C1_Witness ==
    \E r \in Reqs :
        /\ PastSelect(r)
        /\ AutoKeys(r) = <<Lang_pl_PL>> /\ ManualKeys(r) = <<Lang_en>>
        /\ req[r].lang = Lang_pl
        /\ req[r].chosen_lang = Lang_pl_PL /\ req[r].used_type = "auto"

\* the reference priority: the requested code if it is a key; else the first
\* key, in pool order, that starts with it ignoring case; else the first key
ReferenceKey(pool, lang) ==
    LET starts == { i \in 1..Len(pool) : StartsWith(LowerStr(pool[i]), LowerStr(lang)) }
    IN  IF \E i \in 1..Len(pool) : pool[i] = lang THEN lang
        ELSE IF starts # {} THEN pool[CHOOSE i \in starts : \A j \in starts : i <= j]
        ELSE pool[1]

\* C2: within the chosen pool the selected key is the reference priority:
\* exact key, else first case-insensitive prefix match in pool order, else the
\* pool's first key.
C2_SelectionPriority ==
    \A r \in Reqs :
        (PastSelect(r) /\ ~SelectFailed(r)) =>
            req[r].chosen_lang =
                ReferenceKey(IF req[r].used_type = "auto" THEN AutoKeys(r)
                             ELSE ManualKeys(r), req[r].lang)

\* a dialect match that is not the pool's first key
C2_Witness ==
    \E r \in Reqs :
        /\ PastSelect(r)
        /\ AutoKeys(r) = <<Lang_en, Lang_pl_PL>>
        /\ req[r].lang = Lang_pl
        /\ req[r].chosen_lang = Lang_pl_PL

\* C3: the selection fails (404) exactly when both pools are empty; over a
\* non-empty pool it yields a key of that pool for every requested language,
\* the empty string and codes matching no key included.
C3_FailsOnlyOnEmptyPools ==
    \A r \in Reqs :
        PastSelect(r) =>
            /\ SelectFailed(r) <=> (AutoKeys(r) = <<>> /\ ManualKeys(r) = <<>>)
            /\ (AutoKeys(r) # <<>> \/ ManualKeys(r) # <<>>) =>
                  /\ InList("select", req[r].trace)
                  /\ InList(req[r].chosen_lang,
                            IF AutoKeys(r) # <<>> THEN AutoKeys(r) ELSE ManualKeys(r))

\* the empty requested language, and a code no key resembles, fall to the
\* pool's first key
C3_Witness ==
    \E r \in Reqs :
        /\ PastSelect(r)
        /\ AutoKeys(r) = <<>> /\ ManualKeys(r) = <<Lang_pl_PL, Lang_PL>>
        /\ req[r].lang = Lang_en
        /\ req[r].chosen_lang = Lang_pl_PL /\ req[r].used_type = "manual"

\* a request between the end of its credential write and the end of its last
\* external-tool invocation
UsesCookies(r) ==
    \/ req[r].kind = "subs" /\ req[r].pc \in {"written", "tmp", "probed", "selected"}
    \/ req[r].kind = "debug" /\ req[r].pc = "written"

\* a request inside write_cookies_file, the file truncated and not yet closed
WritesCookies(r) == req[r].pc \in {"opened", "flushing"}

\* C4: the cookie file is under mutual exclusion around each request's
\* write-then-use sequence: no request is inside write_cookies_file while
\* another is between its write and its last tool invocation, and no tool
\* invocation reads a truncated or partially written file.
C4_CookieFileMutex ==
    /\ \A r1, r2 \in Reqs : (r1 # r2 /\ UsesCookies(r1)) => ~WritesCookies(r2)
    /\ \A r \in Reqs : req[r].cookie_read \in {"none", "full"}

\* C5: no terminated request leaves its temporary directory, or a cue file in
\* it, behind: on every exit path the directory is gone when the response or
\* the error leaves get_subs.
C5_TmpRemovedOnExit ==
    \A r \in Reqs :
        /\ req[r].pc = "done" => tmp[r] = NoDir
        /\ tmp[r].exists =>
              req[r].kind = "subs" /\ req[r].pc \in {"tmp", "probed", "selected", "downloaded"}

\* a request that downloaded a cue file into its directory and ended in 422
C5_Witness ==
    \E r \in Reqs :
        /\ req[r].pc = "done" /\ req[r].status = 422
        /\ req[r].vtts # <<>>
        /\ tmp[r] = NoDir

\* the status of a /subs request by its first failing stage
ExpectedStatus(r) ==
    LET ct == cookie_text(env)
        f == req[r]
    IN  IF ct.error \/ ct.text = "" THEN 500
        ELSE IF f.probe # "json" \/ Malformed(f.info) THEN 500
        ELSE IF AutoKeys(r) = <<>> /\ ManualKeys(r) = <<>> THEN 404
        ELSE IF f.mat # "ok" THEN 404
        ELSE IF f.vtts = <<>> THEN 404
        ELSE IF vtt_to_text(f.vtts[1].content) = <<>> THEN 422
        ELSE 200

\* C6: every /subs request ends in exactly one outcome, that of its first
\* failing stage: no credentials 500, probe failure or malformed output 500,
\* both pools empty 404, download failure 404, no cue file 404, empty text
\* 422, and 200 only when every stage succeeded and the text is not empty.
C6_TypedOutcome ==
    \A r \in Reqs :
        /\ req[r].pc = "done" <=> req[r].status # 0
        /\ (req[r].kind = "subs" /\ req[r].pc = "done") =>
              /\ req[r].status = ExpectedStatus(r)
              /\ req[r].status = 200 => req[r].body.text # <<>>

\* a request answered 200 with the text of scenario D
C6_Witness ==
    \E r \in Reqs :
        /\ req[r].kind = "subs" /\ req[r].status = 200
        /\ req[r].body.text = L_hello

\* C7 as stated: no two content lines that end up adjacent in the output text
\* are near-identical.  A kept line without text leaves its neighbours
\* adjacent in the output.
HasText(l) == \E i \in 1..Len(l) : ~IsSpace(l[i])

C7_NoSimilarAdjacentInOutput ==
    LET shown == SelectSeq(lines, HasText)
    IN  \A i \in 1..(Len(shown) - 1) : ~too_similar(shown[i + 1], shown[i])

\* C7, amended: each line that survives the skip rules is compared with the
\* immediately preceding kept line only (prev), so no two consecutive kept
\* lines are near-identical.
C7_NoSimilarConsecutiveKept ==
    /\ lines # <<>> => prev = lines[Len(lines)]
    /\ lines = <<>> => prev = <<>>
    /\ \A i \in 1..(Len(lines) - 1) : ~too_similar(lines[i + 1], lines[i])

\* "Hello world" followed by "Hello world there" yields "Hello world"
C7_Witness ==
    /\ pass = 1 /\ npc = "returned"
    /\ vtt = <<L_time, L_hello, L_hello_there>>
    /\ lines = <<L_hello>>
    /\ text = L_hello

\* C8 as stated: the output of vtt_to_text, read again as a one-line cue file,
\* comes back unchanged.
C8_FeedBackIsNoOp == (pass = 2 /\ npc = "returned") => text = first_text

\* a text no skip rule matches, without a tag and without a repeated word
Stable(t) ==
    \/ t = <<>>
    \/ /\ ~SkipLine(t)
       /\ VTT_TAG_RE_sub(t) = t
       /\ \A i \in 1..Len(t) : RepeatMatchEnd(t, i) = 0

\* C8, amended: the output read again as a one-line cue file comes back
\* unchanged when it is empty, or when no skip rule matches it and it holds no
\* <...> tag and no immediately repeated word of two or more characters.
C8_FeedBackIsNoOpWhenStable ==
    (pass = 2 /\ npc = "returned" /\ Stable(first_text)) => text = first_text

\* "Hello world", fed back, is returned unchanged
C8_Witness ==
    /\ pass = 2 /\ npc = "returned"
    /\ first_text = L_hello
    /\ text = L_hello

IsPrefix(s, t) == Len(s) <= Len(t) /\ SubSeq(t, 1, Len(s)) = s

StepOrder == <<"write", "probe", "select", "materialize", "normalize">>

\* C9: within one /subs request the steps run in order and at most once:
\* credential write, probe, selection, download, normalisation; the selection
\* and the download start only after a successful probe, the normalisation
\* only after a successful download.
C9_StepsOrderedOnce ==
    \A r \in Reqs :
        req[r].kind = "subs" =>
            /\ IsPrefix(req[r].trace, StepOrder)
            /\ InList("select", req[r].trace) =>
                  req[r].probe = "json" /\ ~Malformed(req[r].info)
            /\ InList("normalize", req[r].trace) => req[r].mat = "ok"

\* a request that ran all five steps
C9_Witness ==
    \E r \in Reqs :
        /\ req[r].kind = "subs" /\ req[r].pc = "done"
        /\ req[r].trace = StepOrder

\* C10: in every 200 answer of /subs, used_lang is in the advertised list of
\* the pool used_type names, and the download was issued for that language
\* with that pool's flag.
C10_UsedLangAdvertised ==
    \A r \in Reqs :
        (req[r].kind = "subs" /\ req[r].status = 200) =>
            /\ req[r].body.used_type \in {"auto", "manual"}
            /\ InList(req[r].body.used_lang,
                      IF req[r].body.used_type = "auto"
                      THEN req[r].body.available_auto
                      ELSE req[r].body.available_manual)
            /\ req[r].base_cmd.sub_lang = req[r].body.used_lang
            /\ req[r].base_cmd.flag =
                  IF req[r].body.used_type = "auto" THEN "--write-auto-subs"
                  ELSE "--write-subs"

\* a 200 answer from the automatic pool, whose dialect key "pl-PL" was chosen
\* for the requested "pl"
C10_Witness ==
    \E r \in Reqs :
        /\ req[r].status = 200 /\ req[r].body.used_type = "auto"
        /\ req[r].lang = Lang_pl /\ req[r].body.used_lang = Lang_pl_PL
        /\ req[r].base_cmd.flag = "--write-auto-subs"

====
